---------------------------- MODULE Spec2Model ----------------------------
(***************************************************************************)
(* Session / Tunnel lifecycle of CFTP (Electron main process).             *)
(*                                                                         *)
(* The main process is a single-threaded event loop.  An async method runs *)
(* synchronously up to an await on a promise that only an I/O callback     *)
(* settles (listener close, SSH handshake, SFTP subsystem open, listen,    *)
(* readdir, fastPut, fastGet).  An await on a promise that is already      *)
(* settled resumes in the microtask queue, which drains before the next    *)
(* IPC message or I/O callback is dispatched, so it is no interleaving     *)
(* point.  One action of this module is therefore one run of a handler     *)
(* from one I/O wait to the next.                                          *)
(*                                                                         *)
(* Handles are numbered by connect attempt: transport t, the SFTP wrapper  *)
(* opened on it and the Tunnel object built around it all carry the id t.  *)
(* 0 stands for null, "" for an absent or empty string.                    *)
(***************************************************************************)
EXTENDS Integers, Sequences, FiniteSets

\* ------------------------------------------------------------------ bounds
MaxCalls == 2
MaxOps == 3
MaxAttempts == 2
MaxListeners == 2
MaxConns == 1
MaxFiles == 3
NumPorts == 2
MaxEntries == 3
MaxRelays == 2

Slots == 1..MaxCalls
Attempts == 1..MaxAttempts
Listeners == 1..MaxListeners
Ports == 1..NumPorts
Relays == 1..MaxRelays

VARIABLES
    client,      \* SshSession.client : 0 or a transport id
    sftp,        \* SshSession.sftp   : 0 or the id of the attempt that opened it
    tunnel,      \* SshSession.tunnel : 0 or the id of the attempt that built it
    tserver,     \* Tunnel.server per Tunnel object : 0 or a listener id
    tparams,     \* Tunnel.params per Tunnel object : 0 (null) or a local port
    transport,   \* ssh2 Client per attempt: "none", "connecting", "ready", "failed"
    ended,       \* transports on which end() has been called
    sftpEnded,   \* SFTP wrappers on which end() has been called
    lstate,      \* net.Server per listener id
    lport,       \* port a listener was asked to listen on
    lowner,      \* the Tunnel object whose start() created the listener
    conns,       \* open accepted sockets per listener
    calls,       \* the pending handler invocation held by each slot
    last,        \* the invocation that returned most recently, with its result
    ops,         \* handler invocations started so far
    attempts,    \* connect invocations started so far
    env,         \* process.env.SSH_AUTH_SOCK and process.platform of this process
    discReturned,\* a disconnect() has returned and no connect() has returned since
    raw,         \* the list readdir handed to the callback of line 241
    listed,      \* what listRemote returned for it (lines 247-254), once it has
    rsock,       \* per relay: the local socket the connection callback received
    rchan,       \* per relay: the channel forwardOut was asked for
    rlog         \* per relay: the log lines its handlers have written

vars == <<client, sftp, tunnel, tserver, tparams, transport, ended, sftpEnded,
          lstate, lport, lowner, conns, calls, last, ops, attempts, env, discReturned,
          raw, listed, rsock, rchan, rlog>>

\* The variables of the directory-listing computation.
listVars == <<raw, listed>>

\* ------------------------------------------------------------------ inputs
NoParams == [none |-> TRUE]

\* privateKeyPath "nokey" names a file readFileSync cannot read.  The agent
\* socket path is read only when useAgent is set (line 162).
ConnectParams ==
    [password : {"", "pw"}, privateKeyPath : {"", "key"},
     useAgent : {TRUE}, agentSockPath : {"", " ", "sock"}]
    \cup [password : {"", "pw"}, privateKeyPath : {"", "key", "nokey"},
          useAgent : {FALSE}, agentSockPath : {""}]

\* No agent socket at all, one from the environment, or the Windows pipe.
ProcessEnv ==
    {[SSH_AUTH_SOCK |-> "", win32 |-> FALSE],
     [SSH_AUTH_SOCK |-> "envsock", win32 |-> FALSE],
     [SSH_AUTH_SOCK |-> "", win32 |-> TRUE]}

IdleCall ==
    [op |-> "idle", pc |-> "idle", p |-> NoParams, h |-> 0, l |-> 0,
     i |-> 0, n |-> 0, ev |-> <<>>, res |-> "none", out |-> "none",
     log |-> "none", auth |-> "none"]

Trim(s) == IF s = " " THEN "" ELSE s

\* Faulty variant: the final else of lines 172-174 (the throw) is missing
\* and the password branch is taken unconditionally.
ResolveAuthNoThrow(p, e) ==
    IF p.useAgent
    THEN IF Trim(p.agentSockPath) = "" /\ e.SSH_AUTH_SOCK = "" /\ ~e.win32
         THEN "ConfigError" ELSE "agent"
    ELSE IF p.privateKeyPath # ""
         THEN IF p.privateKeyPath = "nokey" THEN "ReadError" ELSE "privateKey"
         ELSE "password"

\* connect, lines 161-174: the authentication method the configuration
\* carries, or the error thrown before a Client is constructed.
ResolveAuth(p, e) ==
    IF p.useAgent
    THEN LET defaultWinPipe == IF e.win32 THEN "pipe" ELSE ""
             fromParams == Trim(p.agentSockPath)
             chosen == IF fromParams # "" THEN fromParams
                       ELSE IF e.SSH_AUTH_SOCK # "" THEN e.SSH_AUTH_SOCK
                       ELSE defaultWinPipe
             agent == Trim(chosen)
         IN  IF agent = "" THEN "ConfigError" ELSE "agent"
    ELSE IF p.privateKeyPath # ""
         THEN IF p.privateKeyPath = "nokey" THEN "ReadError" ELSE "privateKey"
         ELSE IF p.password # "" THEN "password" ELSE "ConfigError"

AuthErrors == {"ConfigError", "ReadError"}

\* ------------------------------------------------------------------ Init
\* No listing is being computed.
NotListed == [returned |-> FALSE, entries |-> <<>>]

ListIdle == raw = <<>> /\ listed = NotListed

SessionInit ==
    /\ client = 0 /\ sftp = 0 /\ tunnel = 0
    /\ tserver = [t \in Attempts |-> 0]
    /\ tparams = [t \in Attempts |-> 0]
    /\ transport = [t \in Attempts |-> "none"]
    /\ ended = {}
    /\ sftpEnded = {}
    /\ lstate = [l \in Listeners |-> "none"]
    /\ lport = [l \in Listeners |-> 0]
    /\ lowner = [l \in Listeners |-> 0]
    /\ conns = [l \in Listeners |-> 0]
    /\ calls = [c \in Slots |-> IdleCall]
    /\ last = IdleCall
    /\ ops = 0
    /\ attempts = 0
    /\ env \in ProcessEnv
    /\ discReturned = FALSE

\* The variables of the relays of a running tunnel.
relayVars == <<rsock, rchan, rlog>>

\* No local client has connected.
RelayIdle ==
    /\ rsock = [r \in Relays |-> "none"]
    /\ rchan = [r \in Relays |-> "none"]
    /\ rlog = [r \in Relays |-> {}]

Init == ListIdle /\ RelayIdle /\ SessionInit

Settled(c) == calls[c].pc = "idle"

\* A new invocation takes the lowest slot that holds no pending call.
Free(c) ==
    /\ Settled(c)
    /\ \A b \in Slots : b < c => ~Settled(b)
    /\ ops < MaxOps

\* ---------------------------------------------------------- IPC handlers
\* Faulty variant: the startTunnel handler has no try/catch.
WrappedWithoutStart == {"connect", "listRemote", "uploadFiles"}

\* lines 303-342: the handlers whose body is try { } catch { return {ok:false} }.
Wrapped == {"connect", "listRemote", "uploadFiles", "startTunnel"}

\* What the handler hands back to the renderer when the Session operation
\* op ended with r: {ok:true,...}, {ok:false, error}, undefined, or a
\* rejection.  startDragOut (lines 367-383) catches what downloadToTemp throws;
\* the disconnect and stopTunnel handlers (313-315, 344-346) catch nothing.
HandlerOut(op, r) ==
    IF op \in Wrapped THEN (IF r = "ok" THEN "okTrue" ELSE "okFalse")
    ELSE IF op = "downloadToTemp" \/ r = "ok" THEN "void"
    ELSE "rejected"

\* The log lines of one invocation: "failure" when a line reports its
\* failure (lines 308 and 381), else "progress" when it logged anything
\* (lines 190-200, 230, 264, 130, 139, 289, 379), else "none".  puts is the
\* number of puts an uploadFiles started, stopped whether stop() had a
\* listener to close.
HandlerLog(op, r, puts, stopped) ==
    IF r # "ok"
    THEN IF op \in {"connect", "downloadToTemp"} THEN "failure"
         ELSE IF op = "uploadFiles" /\ puts > 0 THEN "progress"
         ELSE "none"
    ELSE IF op = "uploadFiles" THEN (IF puts > 0 THEN "progress" ELSE "none")
         ELSE IF op = "listRemote" THEN "none"
         ELSE IF op = "stopTunnel" THEN (IF stopped THEN "progress" ELSE "none")
         ELSE "progress"

\* The invocation k of slot c returns r to its caller (resolves or rejects).
\* last keeps what the caller can tell of it: the operation, its input, its
\* result, the puts it made and, for a connect, the transport it created.
Return(c, k, r) ==
    /\ calls' = [calls EXCEPT ![c] = IdleCall]
    /\ last' = [k EXCEPT !.pc = "done", !.res = r, !.l = 0, !.i = 0,
                         !.h = IF k.op = "connect" THEN k.h ELSE 0,
                         !.out = HandlerOut(k.op, r),
                         !.log = HandlerLog(k.op, r, k.i, k.pc = "stopWait")]

\* The invocation k of slot c waits for an I/O callback.
Await(c, k) ==
    /\ calls' = [calls EXCEPT ![c] = k]
    /\ UNCHANGED last

\* ---------------------------------------------------------- disconnect()
\* Faulty variant: the teardown clears this.sftp without calling end().
SftpEndedAfterSkip(sf, se) == se

\* lines 213-220: this.sftp.end() inside try/catch, then this.sftp = null.
SftpEndedAfter(sf, se) == IF sf # 0 THEN se \cup {sf} ELSE se

\* Faulty variant: the teardown clears this.client without calling end().
ClientEndedAfterSkip(cl, en) == en

\* lines 222-229: this.client.end() inside try/catch, then this.client = null.
ClientEndedAfter(cl, en) == IF cl # 0 THEN en \cup {cl} ELSE en

\* Faulty variant: the end() calls are not wrapped in try/catch.
TeardownEscapesNoCatch(thrown) == thrown

\* lines 214-218, 223-227: both end() calls sit in try { } catch { }.
TeardownEscapes(thrown) == FALSE


\* lines 211-229 with the outcomes of the two end() calls (sT: this.sftp.end()
\* throws, cT: this.client.end() throws): the fields after the teardown,
\* whether an exception escaped it, and the end() calls made, in order, each
\* with whether it threw.
TeardownTail(sT, cT) ==
    LET sftpStep == IF sftp # 0 THEN << <<"sftpEnd", sT>> >> ELSE <<>>
        clientStep == IF client # 0 THEN << <<"clientEnd", cT>> >> ELSE <<>>
    IN
    IF TeardownEscapes(sftp # 0 /\ sT)
    THEN [sftp |-> sftp, client |-> client, ended |-> ended,
          sftpEnded |-> SftpEndedAfter(sftp, sftpEnded), escaped |-> TRUE,
          steps |-> sftpStep]
    ELSE IF TeardownEscapes(client # 0 /\ cT)
    THEN [sftp |-> 0, client |-> client,
          ended |-> ClientEndedAfter(client, ended),
          sftpEnded |-> SftpEndedAfter(sftp, sftpEnded), escaped |-> TRUE,
          steps |-> sftpStep \o clientStep]
    ELSE [sftp |-> 0, client |-> 0,
          ended |-> ClientEndedAfter(client, ended),
          sftpEnded |-> SftpEndedAfter(sftp, sftpEnded), escaped |-> FALSE,
          steps |-> sftpStep \o clientStep]

Throws(handle) == IF handle # 0 THEN BOOLEAN ELSE {FALSE}

\* disconnect() from line 211 to its return, for the call k held by slot c.
DisconnectTail(c, k) ==
    \E sT \in Throws(sftp), cT \in Throws(client) :
        LET d == TeardownTail(sT, cT) IN
        /\ tunnel' = 0
        /\ sftp' = d.sftp
        /\ client' = d.client
        /\ ended' = d.ended
        /\ sftpEnded' = d.sftpEnded
        /\ Return(c, [k EXCEPT !.ev = k.ev \o d.steps],
                  IF d.escaped THEN "Error" ELSE "ok")
        /\ discReturned' = TRUE
        /\ UNCHANGED transport

\* connect() from line 211 of its own disconnect() through lines 155-188, up
\* to the handshake wait or the throw that ends it.
ConnectTail(c, k) ==
    \E sT \in Throws(sftp), cT \in Throws(client) :
        LET d == TeardownTail(sT, cT)
            a == ResolveAuth(k.p, env)
        IN
        /\ tunnel' = 0
        /\ sftp' = d.sftp
        /\ ended' = d.ended
        /\ sftpEnded' = d.sftpEnded
        /\ IF d.escaped \/ a \in AuthErrors
           THEN /\ client' = d.client
                /\ Return(c, [k EXCEPT !.h = 0], IF d.escaped THEN "Error" ELSE a)
                /\ discReturned' = FALSE
                /\ UNCHANGED transport
           ELSE /\ client' = k.h
                /\ transport' = [transport EXCEPT ![k.h] = "connecting"]
                /\ Await(c, [k EXCEPT !.pc = "handshake", !.auth = a])
                /\ UNCHANGED discReturned

\* Faulty variant: the early return of line 137 is missing.
StopMustWaitAlways == tunnel # 0

\* Tunnel.stop(), lines 134-137, as called from disconnect() line 206 or
\* stopTunnel() line 281: the caller has to wait for the listener to close
\* (line 138) iff the Tunnel held one.
StopMustWait == tunnel # 0 /\ tserver[tunnel] # 0

StopSync ==
    IF tunnel = 0
    THEN UNCHANGED <<tserver, tparams, lstate>>
    ELSE /\ tserver' = [tserver EXCEPT ![tunnel] = 0]
         /\ tparams' = [tparams EXCEPT ![tunnel] = 0]
         /\ lstate' = IF tserver[tunnel] # 0
                      THEN [lstate EXCEPT ![tserver[tunnel]] = "closing"]
                      ELSE lstate

\* disconnect(), lines 204-210: the stop() call it makes when it holds a tunnel.
TunnelStep == IF tunnel # 0 THEN << <<"tunnelStop", FALSE>> >> ELSE <<>>

\* Faulty variant: the parameters are validated before the teardown, and a
\* connect that cannot resolve its authentication leaves the session alone.
TeardownAfterAuth(a) == a \notin AuthErrors

\* connect, line 153: await this.disconnect() is the first statement, ahead
\* of the authentication resolution of lines 161-174, whatever that yields.
TeardownBeforeAuth(a) == TRUE

\* ipcMain.handle('cftp:connect') -> SshSession.connect(params)
CallConnect(c) ==
    /\ Free(c) /\ attempts < MaxAttempts
    /\ \E p \in ConnectParams :
        LET k == [IdleCall EXCEPT !.op = "connect", !.p = p, !.h = attempts + 1] IN
        IF TeardownBeforeAuth(ResolveAuth(p, env))
        THEN /\ StopSync
             /\ IF StopMustWait
                THEN /\ Await(c, [k EXCEPT !.pc = "stopWait", !.l = tserver[tunnel]])
                     /\ UNCHANGED <<client, sftp, tunnel, ended, sftpEnded,
                                    transport, discReturned>>
                ELSE ConnectTail(c, k)
        ELSE /\ Return(c, [k EXCEPT !.h = 0], ResolveAuth(p, env))
             /\ UNCHANGED <<client, sftp, tunnel, tserver, tparams, lstate, ended,
                            sftpEnded, transport, discReturned>>
    /\ ops' = ops + 1
    /\ attempts' = attempts + 1
    /\ UNCHANGED <<env, listVars, relayVars, lport, lowner, conns>>

\* ipcMain.handle('cftp:disconnect') -> SshSession.disconnect()
CallDisconnect(c) ==
    /\ Free(c)
    /\ LET k == [IdleCall EXCEPT !.op = "disconnect", !.ev = TunnelStep] IN
        /\ StopSync
        /\ IF StopMustWait
           THEN /\ Await(c, [k EXCEPT !.pc = "stopWait", !.l = tserver[tunnel]])
                /\ UNCHANGED <<client, sftp, tunnel, ended, sftpEnded,
                               transport, discReturned>>
           ELSE DisconnectTail(c, k)
    /\ ops' = ops + 1
    /\ UNCHANGED <<env, listVars, relayVars, lport, lowner, conns, attempts>>

\* ipcMain.handle('cftp:stopTunnel') -> SshSession.stopTunnel()
CallStopTunnel(c) ==
    /\ Free(c)
    /\ LET k == [IdleCall EXCEPT !.op = "stopTunnel"] IN
        /\ StopSync
        /\ IF StopMustWait
           THEN Await(c, [k EXCEPT !.pc = "stopWait", !.l = tserver[tunnel]])
           ELSE Return(c, k, "ok")
    /\ ops' = ops + 1
    /\ UNCHANGED <<env, listVars, relayVars, client, sftp, tunnel, ended, sftpEnded, transport,
                   discReturned, lport, lowner, conns, attempts>>

\* The callback of s.close() (line 138): the listener has stopped listening
\* and every socket it accepted has closed.  The waiting call resumes.
StopClosed(c) ==
    /\ calls[c].pc = "stopWait"
    /\ lstate[calls[c].l] = "closing"
    /\ conns[calls[c].l] = 0
    /\ lstate' = [lstate EXCEPT ![calls[c].l] = "closed"]
    /\ LET k == [calls[c] EXCEPT !.l = 0] IN
       CASE k.op = "connect" -> ConnectTail(c, k)
         [] k.op = "disconnect" -> DisconnectTail(c, k)
         [] OTHER ->
              /\ Return(c, k, "ok")
              /\ UNCHANGED <<client, sftp, tunnel, ended, sftpEnded,
                             transport, discReturned>>
    /\ UNCHANGED <<env, listVars, relayVars, tserver, tparams, lport, lowner, conns, ops, attempts>>

\* ------------------------------------------------------------- connect()
\* client 'ready' (line 185): connect resumes at line 190 and asks for the
\* SFTP subsystem (line 193).  The server's reply to the handshake can be in
\* flight when end() is called on the transport, so 'ready' may still fire;
\* the subsystem request is sent (i = 1) only on a transport not yet ended.
HandshakeReady(c) ==
    /\ calls[c].pc = "handshake"
    /\ transport' = [transport EXCEPT ![calls[c].h] = "ready"]
    /\ Await(c, [calls[c] EXCEPT !.pc = "sftpOpen", !.p = NoParams, !.auth = "none",
                                  !.i = IF calls[c].h \in ended THEN 0 ELSE 1])
    /\ UNCHANGED <<env, listVars, relayVars, client, sftp, tunnel, tserver, tparams, ended, sftpEnded,
                   lstate, lport, lowner, conns, ops, attempts, discReturned>>

\* client 'error' before 'ready' (line 186): connect rejects.
HandshakeError(c) ==
    /\ calls[c].pc = "handshake"
    /\ transport' = [transport EXCEPT ![calls[c].h] = "failed"]
    /\ Return(c, [calls[c] EXCEPT !.p = NoParams, !.auth = "none"], "NetworkError")
    /\ discReturned' = FALSE
    /\ UNCHANGED <<env, listVars, relayVars, client, sftp, tunnel, tserver, tparams, ended, sftpEnded,
                   lstate, lport, lowner, conns, ops, attempts>>

\* client.sftp callback with a wrapper (lines 192-200).  The reply to a
\* request that was sent can arrive after end() was called on the transport.
SftpOpened(c) ==
    /\ calls[c].pc = "sftpOpen"
    /\ calls[c].i = 1
    /\ sftp' = calls[c].h
    /\ tunnel' = calls[c].h
    /\ Return(c, calls[c], "ok")
    /\ discReturned' = FALSE
    /\ UNCHANGED <<env, listVars, relayVars, client, tserver, tparams, transport, ended, sftpEnded,
                   lstate, lport, lowner, conns, ops, attempts>>

\* client.sftp callback with an error (line 194): connect rejects.
SftpFailed(c) ==
    /\ calls[c].pc = "sftpOpen"
    /\ Return(c, calls[c], "SftpError")
    /\ discReturned' = FALSE
    /\ UNCHANGED <<env, listVars, relayVars, client, sftp, tunnel, tserver, tparams, transport, ended,
                   sftpEnded, lstate, lport, lowner, conns, ops, attempts>>

\* ------------------------------------------------------------ Tunnel.start
\* startTunnel, line 275: the guard that throws 'Not connected'.
StartNotConnected(cl, tu) == cl = 0 \/ tu = 0

\* Faulty variant: this.params is assigned before the running check.
ParamsAtStartEarly(running, old, port) == port

\* Tunnel.start, lines 95-96: params are stored only after the running check.
ParamsAtStart(running, old, port) == IF running THEN old ELSE port

NewListener == Cardinality({l \in Listeners : lstate[l] # "none"}) + 1

\* ipcMain.handle('cftp:startTunnel') -> SshSession.startTunnel(params)
\*   -> Tunnel.start(params) up to the listen wait (line 124).
CallStartTunnel(c) ==
    /\ Free(c)
    /\ \E port \in Ports :
        LET k == [IdleCall EXCEPT !.op = "startTunnel"]
            running == tunnel # 0 /\ tserver[tunnel] # 0
        IN
        IF StartNotConnected(client, tunnel)
        THEN /\ Return(c, k, "NotConnected")
             /\ UNCHANGED <<tparams, lstate, lport, lowner>>
        ELSE /\ tunnel # 0
             /\ tparams' = [tparams EXCEPT ![tunnel] =
                               ParamsAtStart(running, tparams[tunnel], port)]
             /\ IF running
                THEN /\ Return(c, k, "AlreadyRunning")
                     /\ UNCHANGED <<lstate, lport, lowner>>
                ELSE /\ NewListener \in Listeners
                     /\ lstate' = [lstate EXCEPT ![NewListener] = "binding"]
                     /\ lport' = [lport EXCEPT ![NewListener] = port]
                     /\ lowner' = [lowner EXCEPT ![NewListener] = tunnel]
                     /\ Await(c, [k EXCEPT !.pc = "listenWait", !.h = tunnel,
                                            !.l = NewListener])
    /\ ops' = ops + 1
    /\ UNCHANGED <<env, listVars, relayVars, client, sftp, tunnel, tserver, transport, ended, sftpEnded,
                   conns, attempts, discReturned>>

\* Faulty variant: this.server is assigned whether or not listen succeeded.
ServerAfterListenAlways(bound, old, l) == l

\* lines 124-129: line 129 is reached only when the listen promise resolves;
\* a rejection leaves start at line 124 with this.server as it was.
ServerAfterListen(bound, old, l) == IF bound THEN l ELSE old

PortTaken(port) == \E l \in Listeners : lstate[l] = "listening" /\ lport[l] = port

\* The listen callback (line 126): the listener is bound; lines 129-130.
ListenOk(c) ==
    /\ calls[c].pc = "listenWait"
    /\ ~PortTaken(lport[calls[c].l])
    /\ lstate' = [lstate EXCEPT ![calls[c].l] = "listening"]
    /\ tserver' = [tserver EXCEPT ![calls[c].h] =
                      ServerAfterListen(TRUE, @, calls[c].l)]
    /\ Return(c, calls[c], "ok")
    /\ UNCHANGED <<env, listVars, relayVars, client, sftp, tunnel, tparams, transport, ended, sftpEnded,
                   lport, lowner, conns, ops, attempts, discReturned>>

\* The server's 'error' event (line 125), e.g. the port is in use: start rejects.
ListenFail(c) ==
    /\ calls[c].pc = "listenWait"
    /\ lstate' = [lstate EXCEPT ![calls[c].l] = "failed"]
    /\ tserver' = [tserver EXCEPT ![calls[c].h] =
                      ServerAfterListen(FALSE, @, calls[c].l)]
    /\ Return(c, calls[c], "BindError")
    /\ UNCHANGED <<env, listVars, relayVars, client, sftp, tunnel, tparams, transport, ended,
                   sftpEnded, lport, lowner, conns, ops, attempts, discReturned>>

\* A local client connects to a listening tunnel (the callback of line 98).
Accept(l) ==
    /\ lstate[l] = "listening"
    /\ conns[l] < MaxConns
    /\ conns' = [conns EXCEPT ![l] = @ + 1]
    /\ UNCHANGED <<env, listVars, relayVars, client, sftp, tunnel, tserver, tparams, transport, ended,
                   sftpEnded, lstate, lport, lowner, calls, last, ops, attempts,
                   discReturned>>

\* An accepted socket closes.
SocketClosed(l) ==
    /\ conns[l] > 0
    /\ conns' = [conns EXCEPT ![l] = @ - 1]
    /\ UNCHANGED <<env, listVars, relayVars, client, sftp, tunnel, tserver, tparams, transport, ended,
                   sftpEnded, lstate, lport, lowner, calls, last, ops, attempts,
                   discReturned>>

\* ----------------------------------------------------- file operations
\* Faulty variant: && in place of || in the guard.
RequireSftpThrowsBoth(cl, sf) == cl = 0 /\ sf = 0

\* requireSftp, line 234: the guard that throws 'Not connected'.
RequireSftpThrows(cl, sf) == cl = 0 \/ sf = 0

\* ipcMain.handle('cftp:listRemote') -> listRemote(dir) up to the readdir wait.
CallListRemote(c) ==
    /\ Free(c)
    /\ LET k == [IdleCall EXCEPT !.op = "listRemote"] IN
       IF RequireSftpThrows(client, sftp)
       THEN Return(c, k, "NotConnected")
       ELSE Await(c, [k EXCEPT !.pc = "readdir", !.h = sftp])
    /\ ops' = ops + 1
    /\ UNCHANGED <<env, listVars, relayVars, client, sftp, tunnel, tserver, tparams, transport, ended,
                   sftpEnded, lstate, lport, lowner, conns, attempts, discReturned>>

\* downloadToTemp(remotePath) up to the fastGet wait (called by startDragOut).
CallDownload(c) ==
    /\ Free(c)
    /\ LET k == [IdleCall EXCEPT !.op = "downloadToTemp"] IN
       IF RequireSftpThrows(client, sftp)
       THEN Return(c, k, "NotConnected")
       ELSE Await(c, [k EXCEPT !.pc = "get", !.h = sftp])
    /\ ops' = ops + 1
    /\ UNCHANGED <<env, listVars, relayVars, client, sftp, tunnel, tserver, tparams, transport, ended,
                   sftpEnded, lstate, lport, lowner, conns, attempts, discReturned>>

\* The readdir or fastGet callback: the call resolves or rejects.
TransferDone(c) ==
    /\ calls[c].pc \in {"readdir", "get"}
    /\ \E ok \in BOOLEAN :
          /\ ok => calls[c].h \notin sftpEnded
          /\ Return(c, calls[c], IF ok THEN "ok" ELSE "TransportError")
    /\ UNCHANGED <<env, listVars, relayVars, client, sftp, tunnel, tserver, tparams, transport, ended,
                   sftpEnded, lstate, lport, lowner, conns, ops, attempts, discReturned>>

\* Faulty variant: a rejected put is swallowed and the loop goes on.
NextAfterPutContinue(i, n, ok) == IF i < n THEN "put" ELSE "return"

\* uploadFiles, lines 259-271: after the put of file i of n settled, the loop
\* starts the next put, returns, or (a rejected put) throws.
NextAfterPut(i, n, ok) ==
    IF ~ok THEN "throw" ELSE IF i < n THEN "put" ELSE "return"

\* ipcMain.handle('cftp:uploadFiles') -> uploadFiles(localPaths, remoteDir)
\* up to the first fastPut wait.  ev records the puts started and settled.
CallUploadFiles(c) ==
    /\ Free(c)
    /\ \E n \in 0..MaxFiles :
       LET k == [IdleCall EXCEPT !.op = "uploadFiles", !.n = n] IN
       IF RequireSftpThrows(client, sftp)
       THEN Return(c, k, "NotConnected")
       ELSE IF n = 0
       THEN Return(c, k, "ok")
       ELSE Await(c, [k EXCEPT !.pc = "put", !.h = sftp, !.i = 1,
                               !.ev = <<<<"start", 1>>>>])
    /\ ops' = ops + 1
    /\ UNCHANGED <<env, listVars, relayVars, client, sftp, tunnel, tserver, tparams, transport, ended,
                   sftpEnded, lstate, lport, lowner, conns, attempts, discReturned>>

\* The fastPut callback of the put in flight (lines 266-269).
PutDone(c) ==
    /\ calls[c].pc = "put"
    /\ \E ok \in BOOLEAN :
       LET k == calls[c]
           e == Append(k.ev, <<IF ok THEN "ok" ELSE "fail", k.i>>)
           nxt == NextAfterPut(k.i, k.n, ok)
       IN
       /\ ok => k.h \notin sftpEnded
       /\ CASE nxt = "put" ->
                 Await(c, [k EXCEPT !.i = k.i + 1,
                                    !.ev = Append(e, <<"start", k.i + 1>>)])
            [] nxt = "return" -> Return(c, [k EXCEPT !.ev = e], "ok")
            [] OTHER -> Return(c, [k EXCEPT !.ev = e], "TransportError")
    /\ UNCHANGED <<env, listVars, relayVars, client, sftp, tunnel, tserver, tparams, transport, ended,
                   sftpEnded, lstate, lport, lowner, conns, ops, attempts, discReturned>>

\* ------------------------------------------------- listRemote, lines 247-254
\* File names, in the order localeCompare gives them.
Names == <<".", "..", "a", "b">>

NameRank(s) == CHOOSE r \in 1..Len(Names) : Names[r] = s

\* An entry of the list readdir delivers: its filename and what
\* attrs.isDirectory() and attrs.isFile() answer.
RawEntry ==
    {e \in [filename : {Names[r] : r \in 1..Len(Names)},
            isDir : BOOLEAN, isFile : BOOLEAN] : ~(e.isDir /\ e.isFile)}

RECURSIVE SeqsUpTo(_, _)
SeqsUpTo(S, n) ==
    IF n = 0 THEN {<<>>}
    ELSE LET shorter == SeqsUpTo(S, n - 1) IN
         shorter \cup {Append(q, x) : q \in {t \in shorter : Len(t) = n - 1}, x \in S}

RawListings == SeqsUpTo(RawEntry, MaxEntries)

\* Faulty variant: only the self entry is filtered out.
KeepEntryDotOnly(e) == e.filename # "."

\* line 248: the filter callback.
KeepEntry(e) == e.filename # "." /\ e.filename # ".."

\* lines 249-253: the map callback.
ToListed(e) ==
    [name |-> e.filename,
     kind |-> IF e.isDir THEN "dir" ELSE IF e.isFile THEN "file" ELSE "other"]

\* a.name.localeCompare(b.name)
LocaleCompare(a, b) ==
    IF NameRank(a) < NameRank(b) THEN -1 ELSE IF NameRank(a) > NameRank(b) THEN 1 ELSE 0

\* line 254: the comparator handed to sort.
Compare(a, b) ==
    IF a.kind = b.kind THEN LocaleCompare(a.name, b.name)
    ELSE IF a.kind = "dir" THEN -1 ELSE 1

\* Array.prototype.sort as V8 runs it on fewer than 64 elements: the first
\* run is counted (and reversed when strictly descending), the rest is
\* inserted by binary search.  Sequences are 1-based; the indices below are
\* V8's 0-based ones.
RECURSIVE RunEnd(_, _, _)
RunEnd(w, desc, idx) ==
    IF idx >= Len(w) THEN Len(w)
    ELSE LET order == Compare(w[idx + 1], w[idx]) IN
         IF (desc /\ order >= 0) \/ (~desc /\ order < 0) THEN idx
         ELSE RunEnd(w, desc, idx + 1)

Reversed(w, n) == [i \in 1..Len(w) |-> IF i <= n THEN w[n + 1 - i] ELSE w[i]]

\* CountAndMakeRun(0, length): the array after the call and the run's length.
CountAndMakeRun(w) ==
    LET desc == Compare(w[2], w[1]) < 0
        run == RunEnd(w, desc, 2)
    IN  [work |-> IF desc THEN Reversed(w, run) ELSE w, run |-> run]

RECURSIVE BinarySearch(_, _, _, _)
BinarySearch(w, pivot, left, right) ==
    IF left >= right THEN left
    ELSE LET mid == left + ((right - left) \div 2) IN
         IF Compare(pivot, w[mid + 1]) < 0
         THEN BinarySearch(w, pivot, left, mid)
         ELSE BinarySearch(w, pivot, mid + 1, right)

InsertAt(w, start, left) ==
    [i \in 1..Len(w) |->
        IF i - 1 < left \/ i - 1 > start THEN w[i]
        ELSE IF i - 1 = left THEN w[start + 1] ELSE w[i - 1]]

RECURSIVE BinaryInsertionSort(_, _)
BinaryInsertionSort(w, start) ==
    IF start >= Len(w) THEN w
    ELSE BinaryInsertionSort(
             InsertAt(w, start, BinarySearch(w, w[start + 1], 0, start)), start + 1)

Sorted(w) ==
    IF Len(w) < 2 THEN w
    ELSE LET r == CountAndMakeRun(w) IN BinaryInsertionSort(r.work, r.run)

RECURSIVE Filtered(_)
Filtered(q) ==
    IF q = <<>> THEN <<>>
    ELSE IF KeepEntry(Head(q)) THEN <<Head(q)>> \o Filtered(Tail(q))
    ELSE Filtered(Tail(q))

Mapped(q) == [i \in 1..Len(q) |-> ToListed(q[i])]

\* lines 247-254: what listRemote returns for the raw list q.
ListRemoteResult(q) == Sorted(Mapped(Filtered(q)))

\* The readdir callback has delivered some list and listRemote has not
\* resumed yet.
InitList ==
    /\ raw \in RawListings
    /\ listed = NotListed
    /\ RelayIdle
    /\ SessionInit

\* listRemote resumes after line 245 and returns.
ListRemoteReturns ==
    /\ ~listed.returned
    /\ listed' = [returned |-> TRUE, entries |-> ListRemoteResult(raw)]
    /\ UNCHANGED <<raw, relayVars, client, sftp, tunnel, tserver, tparams, transport, ended,
                   sftpEnded, lstate, lport, lowner, conns, calls, last, ops, attempts,
                   env, discReturned>>

NextList == ListRemoteReturns

SpecList == InitList /\ [][NextList]_vars

\* -------------------------------------- relays, Tunnel.start lines 98-122
sessionVars ==
    <<client, sftp, tunnel, tserver, tparams, transport, ended, sftpEnded,
      lstate, lport, lowner, calls, last, ops, attempts, env, discReturned>>

\* The session after connect() with a password and startTunnel on port 1
\* have returned: the tunnel of attempt 1 is Running on listener 1.
TunnelRunning ==
    /\ client = 1 /\ sftp = 1 /\ tunnel = 1
    /\ tserver = [t \in Attempts |-> IF t = 1 THEN 1 ELSE 0]
    /\ tparams = [t \in Attempts |-> IF t = 1 THEN 1 ELSE 0]
    /\ transport = [t \in Attempts |-> IF t = 1 THEN "ready" ELSE "none"]
    /\ ended = {} /\ sftpEnded = {}
    /\ lstate = [l \in Listeners |-> IF l = 1 THEN "listening" ELSE "none"]
    /\ lport = [l \in Listeners |-> IF l = 1 THEN 1 ELSE 0]
    /\ lowner = [l \in Listeners |-> IF l = 1 THEN 1 ELSE 0]
    /\ conns = [l \in Listeners |-> 0]
    /\ calls = [c \in Slots |-> IdleCall]
    /\ last = [IdleCall EXCEPT !.op = "startTunnel", !.pc = "done", !.res = "ok",
                               !.out = "okTrue", !.log = "progress"]
    /\ ops = 2 /\ attempts = 1
    /\ env \in ProcessEnv
    /\ discReturned = FALSE

InitRelay == ListIdle /\ RelayIdle /\ TunnelRunning

\* The sockets the listener accepted that are still open.
OpenSockets(rs) == Cardinality({r \in Relays : rs[r] = "open"})

RelayStep(rs, rc, lg) ==
    /\ rsock' = rs
    /\ rchan' = rc
    /\ rlog' = lg
    /\ conns' = [conns EXCEPT ![tserver[tunnel]] = OpenSockets(rs)]
    /\ UNCHANGED <<sessionVars, listVars>>

\* Faulty variant: the handlers share one sock and one stream variable.
RelayTargetsAll(r) == Relays

\* The handlers of lines 106-121 close over the sock and the stream of their
\* own connection: the relays an event of relay r acts on.
RelayTargets(r) == {r}

\* f with the value v for the relays the handlers of relay r act on.
OnRelay(f, r, v) == [q \in Relays |-> IF q \in RelayTargets(r) THEN v ELSE f[q]]

\* sock.destroy(err) / sock.end() on a socket that may be gone already.
Destroyed(s) == IF s = "open" THEN "destroyed" ELSE s
Finished(s) == IF s = "open" THEN "finished" ELSE s

\* sock.destroy(err) makes an open socket emit 'error': line 121 logs it.
DestroyLog(s) == IF s = "open" THEN {"socket"} ELSE {}

\* The connection callback (lines 98-122): forwardOut is requested (101) and
\* the socket's 'error' handler installed (121).
RelayAccept(r) ==
    /\ rsock[r] = "none"
    /\ \A q \in Relays : q < r => rsock[q] # "none"
    /\ lstate[tserver[tunnel]] = "listening"
    /\ RelayStep([rsock EXCEPT ![r] = "open"], [rchan EXCEPT ![r] = "opening"], rlog)

\* The forwardOut callback with a stream (lines 112-117): the two pipes and
\* the stream's 'close' and 'error' handlers are set up.
ForwardOutOk(r) ==
    /\ rchan[r] = "opening"
    /\ RelayStep(rsock, OnRelay(rchan, r, "open"), rlog)

\* Faulty variant: the callback returns on an error without sock.destroy.
SockAfterOpenFailureKept(s) == s

\* line 109: sock.destroy(err).
SockAfterOpenFailure(s) == Destroyed(s)

\* The forwardOut callback with an error (lines 107-111): the error is
\* logged, the socket destroyed, nothing is piped.
ForwardOutErr(r) ==
    /\ rchan[r] = "opening"
    /\ RelayStep(OnRelay(rsock, r, SockAfterOpenFailure(rsock[r])),
                 OnRelay(rchan, r, "failed"),
                 OnRelay(rlog, r, rlog[r] \cup {"forwardOut"} \cup DestroyLog(rsock[r])))

\* What the socket's 'error' handler (line 121) does to the channel: it logs.
ChanAfterSockError(ch) == ch

\* The local socket emits 'error' (and is destroyed by the runtime).  The
\* pipe of line 112 ends its destination only on the source's 'end'.
SockError(r) ==
    /\ rsock[r] = "open"
    /\ RelayStep(OnRelay(rsock, r, "errored"),
                 OnRelay(rchan, r, ChanAfterSockError(rchan[r])),
                 OnRelay(rlog, r, rlog[r] \cup {"socket"}))

\* The local client closes its side: the socket emits 'end', the pipe of line
\* 112, if set up, calls stream.end().
SockEnd(r) ==
    /\ rsock[r] = "open"
    /\ RelayStep(OnRelay(rsock, r, "finished"),
                 OnRelay(rchan, r, IF rchan[r] = "open" THEN "ended" ELSE rchan[r]),
                 rlog)

\* The stream emits 'close' (line 113): sock.end().
StreamClose(r) ==
    /\ rchan[r] \in {"open", "ended"}
    /\ RelayStep(OnRelay(rsock, r, Finished(rsock[r])),
                 OnRelay(rchan, r, "closed"), rlog)

\* The stream emits 'error' (lines 114-117): logged, sock.destroy(e).
StreamError(r) ==
    /\ rchan[r] \in {"open", "ended"}
    /\ RelayStep(OnRelay(rsock, r, Destroyed(rsock[r])),
                 OnRelay(rchan, r, "errored"),
                 OnRelay(rlog, r, rlog[r] \cup {"stream"} \cup DestroyLog(rsock[r])))

NextRelay ==
    \/ \E r \in Relays : RelayAccept(r)
    \/ \E r \in Relays : ForwardOutOk(r)
    \/ \E r \in Relays : ForwardOutErr(r)
    \/ \E r \in Relays : SockError(r)
    \/ \E r \in Relays : SockEnd(r)
    \/ \E r \in Relays : StreamClose(r)
    \/ \E r \in Relays : StreamError(r)

SpecRelay == InitRelay /\ [][NextRelay]_vars

\* ------------------------------------------------------------------ Next
Next ==
    \/ \E c \in Slots : CallConnect(c)
    \/ \E c \in Slots : CallDisconnect(c)
    \/ \E c \in Slots : CallStopTunnel(c)
    \/ \E c \in Slots : StopClosed(c)
    \/ \E c \in Slots : HandshakeReady(c)
    \/ \E c \in Slots : HandshakeError(c)
    \/ \E c \in Slots : SftpOpened(c)
    \/ \E c \in Slots : SftpFailed(c)
    \/ \E c \in Slots : CallStartTunnel(c)
    \/ \E c \in Slots : ListenOk(c)
    \/ \E c \in Slots : ListenFail(c)
    \/ \E l \in Listeners : Accept(l)
    \/ \E l \in Listeners : SocketClosed(l)
    \/ \E c \in Slots : CallListRemote(c)
    \/ \E c \in Slots : CallDownload(c)
    \/ \E c \in Slots : TransferDone(c)
    \/ \E c \in Slots : CallUploadFiles(c)
    \/ \E c \in Slots : PutDone(c)

Spec == Init /\ [][Next]_vars

\* The event loop runs every I/O callback that is ready.  When a local client
\* closes its connection (SocketClosed), whether one connects (Accept) and
\* when the renderer invokes a handler are not up to this process.
Callbacks ==
    \E c \in Slots :
        \/ StopClosed(c) \/ HandshakeReady(c) \/ HandshakeError(c)
        \/ SftpOpened(c) \/ SftpFailed(c) \/ ListenOk(c) \/ ListenFail(c)
        \/ TransferDone(c) \/ PutDone(c)

SpecLive == Init /\ [][Next]_vars /\ WF_vars(Callbacks)

\* Calls that never overlap: an invocation starts only when none is pending.
NoPending == \A c \in Slots : calls[c].pc = "idle"

NextSerial == Next /\ (ops' # ops => NoPending)

SpecSerial == Init /\ [][NextSerial]_vars

\* ---------------------------------------------------------- observations
Created == {t \in Attempts : transport[t] # "none"}

\* Transports that were created and on which end() was never called.
LiveTransports == Created \ ended

Listening == {l \in Listeners : lstate[l] = "listening"}

\* This step starts an invocation that returns before any I/O wait.
ReturnsAtOnce == ops' = ops + 1 /\ calls' = calls

\* This step resumes a pending invocation of operation o and returns from it.
ReturnsLater(o) ==
    \E c \in Slots : calls[c].op = o /\ calls[c].pc # "idle" /\ calls'[c].pc = "idle"

\* An invocation of operation o returns in this step; last' is its record.
ReturnsNow(o) == last'.op = o /\ (ReturnsAtOnce \/ ReturnsLater(o))

\* The operation of the invocation this step starts.
StartedOp ==
    IF calls' = calls THEN last'.op
    ELSE calls'[CHOOSE c \in Slots : calls'[c] # calls[c]].op

StartsNow(o) == ops' = ops + 1 /\ StartedOp = o

SessionFields == <<client, sftp, tunnel>>
TunnelFields == <<tserver, tparams>>
Handles == <<transport, ended, sftpEnded, lstate, lport, conns>>

\* ------------------------------------------------------------------ C1
\* C1: the transports that were created and not ended are exactly the one
\* the Session holds (none when it holds none): a connect ends the transport
\* of the previous connect before it creates its own, so two connects in
\* succession leave exactly one live transport and there are never two.
C1_OneLiveTransport ==
    LiveTransports = (IF client = 0 THEN {} ELSE {client})

\* Two connect calls and nothing else were made, the second succeeded: the
\* first transport is ended and the second is the only live one.
C1_Witness ==
    /\ ops = 2 /\ attempts = 2
    /\ last.op = "connect" /\ last.res = "ok" /\ last.h = 2
    /\ 1 \in Created /\ 1 \in ended
    /\ LiveTransports = {2}

\* ------------------------------------------------------------------ C2
\* C2: whenever connect returns a failure, the Session is Disconnected at
\* that moment (no transport, no subsystem handle, no tunnel, isConnected()
\* false) and the transport the call created, if any, is not left live.
C2_FailedConnectDisconnected ==
    [][ReturnsNow("connect") /\ last'.res # "ok"
         => /\ client' = 0 /\ sftp' = 0 /\ tunnel' = 0
            /\ last'.h \notin LiveTransports']_vars

\* ------------------------------------------------------------------ C3
Quiescent == NoPending

\* What the fields can be once a serial run of connect, disconnect,
\* startTunnel and stopTunnel calls has returned from its last call.
SerialOutcome ==
    /\ sftp # 0 => client = sftp
    /\ tunnel = sftp
    /\ LiveTransports \subseteq {client}
    /\ Listening = (IF tunnel # 0 /\ tserver[tunnel] # 0
                    THEN {tserver[tunnel]} ELSE {})
    /\ \A l \in Listeners : lstate[l] \notin {"binding", "closing"}

\* C3: connect, disconnect, startTunnel and stopTunnel are atomic with
\* respect to each other: whatever the interleaving of overlapping calls,
\* once all of them have returned the Session/Tunnel state (handles held,
\* listeners bound, transports live) is one a serial execution produces.
C3_AtomicOperations == Quiescent => SerialOutcome

\* ------------------------------------------------------------------ C4
\* C4: in every reachable state the handles the Session holds come from one
\* connect attempt: a transport is never held together with the subsystem
\* handle or the tunnel of another attempt.
C4_HandlesFromOneAttempt ==
    /\ client # 0 /\ sftp # 0 => sftp = client
    /\ client # 0 /\ tunnel # 0 => tunnel = client

\* ------------------------------------------------------------------ C5
\* C5: whenever disconnect() has returned and no connect has returned since,
\* no tunnel listener is bound, also when a startTunnel overlapped it.
C5_NoListenerAfterDisconnect == discReturned => Listening = {}

\* ------------------------------------------------------------------ C6
Disconnected == client = 0 /\ sftp = 0 /\ tunnel = 0

\* C6: disconnect() never fails and is idempotent: every return of it
\* resolves and leaves transport, subsystem and tunnel absent, so N calls in
\* sequence end in the state one call ends in; and a call on an already
\* Disconnected session ends no handle, closes no listener and changes
\* nothing.
C6_DisconnectIdempotent ==
    [][/\ (ReturnsNow("disconnect") => last'.res = "ok" /\ Disconnected')
       /\ (StartsNow("disconnect") /\ Disconnected
             => ReturnsAtOnce /\ UNCHANGED <<SessionFields, TunnelFields, Handles>>)]_vars

\* A second disconnect() in a row has returned on the session a connect had
\* established.
C6_Witness ==
    /\ ops = 3 /\ attempts = 1
    /\ last.op = "disconnect" /\ last.res = "ok"
    /\ Disconnected /\ ended = {1} /\ sftpEnded = {1}
    /\ NoPending

\* ------------------------------------------------------------------ C7
\* No authentication method is resolvable from params p in environment e.
NoAuthResolvable(p, e) ==
    \/ p.password = "" /\ p.privateKeyPath = "" /\ ~p.useAgent
    \/ /\ p.useAgent
       /\ p.agentSockPath \in {"", " "}
       /\ e.SSH_AUTH_SOCK = "" /\ ~e.win32

\* C7: a connect whose parameters resolve to no authentication method fails
\* with the configuration error, has created no transport, and leaves the
\* Session Disconnected.
C7_NoAuthFailsBeforeTransport ==
    [][/\ \A c \in Slots :
            calls'[c].pc = "handshake" => ~NoAuthResolvable(calls'[c].p, env)
       /\ ReturnsNow("connect") /\ last'.p # NoParams /\ NoAuthResolvable(last'.p, env)
            => /\ last'.res = "ConfigError"
               /\ last'.h = 0
               /\ Created' = Created
               /\ Disconnected']_vars

\* On an established session, a connect that asks for the agent, has no
\* agent socket from any source and carries a password was refused: the old
\* transport is ended, no new one exists, the Session is Disconnected.
C7_Witness ==
    /\ last.op = "connect" /\ last.res = "ConfigError"
    /\ last.p.useAgent /\ last.p.password = "pw"
    /\ Created = {1} /\ ended = {1} /\ sftpEnded = {1} /\ Disconnected
    /\ NoPending

\* ------------------------------------------------------------------ C8
DataOps == {"listRemote", "uploadFiles", "downloadToTemp", "startTunnel"}

\* C8: listRemote, uploadFiles, downloadToTemp and startTunnel started while
\* the Session holds no transport (isConnected() is false) return
\* NotConnected at once, start no I/O on any handle and change no state.
C8_NotConnected ==
    [][ops' = ops + 1 /\ client = 0 /\ StartedOp \in DataOps
         => /\ ReturnsAtOnce
            /\ last'.res = "NotConnected"
            /\ UNCHANGED <<SessionFields, TunnelFields, Handles>>]_vars

\* listRemote was refused after a disconnect() of an established session.
C8_Witness ==
    /\ last.op = "listRemote" /\ last.res = "NotConnected"
    /\ discReturned /\ 1 \in sftpEnded /\ Disconnected

\* ------------------------------------------------------------------ C9
\* C9: startTunnel called while the Session's tunnel is Running fails with
\* AlreadyRunning and leaves the tunnel as it was: same listener, same
\* stored parameters, same open relays, no new listener.
C9_AlreadyRunning ==
    [][StartsNow("startTunnel") /\ tunnel # 0 /\ tserver[tunnel] # 0
         => /\ ReturnsAtOnce
            /\ last'.res = "AlreadyRunning"
            /\ UNCHANGED <<SessionFields, TunnelFields, Handles>>]_vars

\* A start was refused while the tunnel was Running with a relay open.
C9_Witness ==
    /\ last.op = "startTunnel" /\ last.res = "AlreadyRunning"
    /\ tunnel # 0 /\ tserver[tunnel] # 0
    /\ lstate[tserver[tunnel]] = "listening"
    /\ conns[tserver[tunnel]] > 0

\* ------------------------------------------------------------------ C10
Starts(e, k) == {m \in 1..k : e[m][1] = "start"}
Settles(e, k) == {m \in 1..k : e[m][1] # "start"}

\* The puts recorded in e were sequential, in input order, and stopped at
\* the first failure.
SequentialPuts(e) ==
    \A k \in 1..Len(e) :
        e[k][1] = "start" =>
            /\ Cardinality(Starts(e, k - 1)) = Cardinality(Settles(e, k - 1))
            /\ \A j \in 1..(e[k][2] - 1) : \E m \in 1..(k - 1) : e[m] = <<"ok", j>>
            /\ \A m \in 1..(k - 1) : e[m][1] # "fail"

InFlight(e) == Cardinality(Starts(e, Len(e))) - Cardinality(Settles(e, Len(e)))

\* C10: within one uploadFiles call the put of file i starts only after the
\* puts of all files before it completed successfully, at most one put is in
\* flight, no file is attempted after the first failure, and a call with a
\* failed put reports failure.
C10_UploadsSequential ==
    /\ \A c \in Slots : calls[c].op = "uploadFiles" =>
          SequentialPuts(calls[c].ev) /\ InFlight(calls[c].ev) = 1
    /\ last.op = "uploadFiles" =>
          /\ SequentialPuts(last.ev) /\ InFlight(last.ev) = 0
          /\ (\E m \in 1..Len(last.ev) : last.ev[m][1] = "fail") => last.res # "ok"
          /\ last.res = "ok" /\ last.n > 0 => last.ev[Len(last.ev)] = <<"ok", last.n>>

\* uploadFiles([a, b, c]): a completed, b failed, c was never attempted.
C10_Witness ==
    /\ last.op = "uploadFiles" /\ last.n = 3
    /\ last.ev = << <<"start", 1>>, <<"ok", 1>>, <<"start", 2>>, <<"fail", 2>> >>
    /\ last.res = "TransportError"

\* ------------------------------------------------------------------ C11
KindOrder(k) == IF k = "dir" THEN 0 ELSE IF k = "file" THEN 1 ELSE 2

\* The listing q is sorted by kind (dir, file, other), then by name.
SortedByKindThenName(q) ==
    \A i \in 1..Len(q) : \A j \in 1..Len(q) :
        i < j =>
            \/ KindOrder(q[i].kind) < KindOrder(q[j].kind)
            \/ /\ q[i].kind = q[j].kind
               /\ NameRank(q[i].name) <= NameRank(q[j].name)

\* C11: for every raw directory listing, what listRemote returns is sorted:
\* every dir before every file, every file before every other, and within
\* one kind the names non-decreasing.
C11_ListingSorted == listed.returned => SortedByKindThenName(listed.entries)

\* ------------------------------------------------------------------ C12
Occurrences(q, x) == Cardinality({i \in 1..Len(q) : q[i] = x})

\* C12: listRemote returns exactly the raw entries named neither "." nor
\* "..": none of the returned entries has such a name, and every other raw
\* entry is returned as often as it occurs in the raw listing.
C12_ListingFiltered ==
    listed.returned =>
        LET out == listed.entries IN
        /\ \A i \in 1..Len(out) : out[i].name \notin {".", ".."}
        /\ \A e \in RawEntry :
              e.filename \notin {".", ".."}
                  => Occurrences(out, ToListed(e)) = Occurrences(raw, e)
        /\ Len(out) = Cardinality({i \in 1..Len(raw) : raw[i].filename \notin {".", ".."}})

\* The listing <<".", "b", "..">> was returned as the one entry "b".
C12_Witness ==
    /\ listed.returned
    /\ Len(raw) = 3 /\ raw[1].filename = "." /\ raw[3].filename = ".."
    /\ Len(listed.entries) = 1 /\ listed.entries[1].name = "b"

\* ------------------------------------------------------------------ C13
\* The Tunnel object t holds neither a listener nor parameters: it was never
\* started, or stop() has run since its last start.
Stopped(t) == tserver[t] = 0 /\ tparams[t] = 0

StepRank(name) ==
    IF name = "tunnelStop" THEN 1 ELSE IF name = "sftpEnd" THEN 2 ELSE 3

StepNames(e) == {e[i][1] : i \in 1..Len(e)}

\* C14: every disconnect() makes its teardown calls in the order tunnel
\* stop, subsystem end, transport end; a call that starts on a Connected
\* session stops the tunnel first; whatever step throws, the subsystem and
\* the transport the Session held are ended and all three handles cleared.
C14_TeardownOrder ==
    [][/\ ReturnsNow("disconnect") =>
            LET e == last'.ev IN
            /\ \A i \in 1..Len(e) : \A j \in 1..Len(e) :
                  i < j => StepRank(e[i][1]) < StepRank(e[j][1])
            /\ sftp # 0 => "sftpEnd" \in StepNames(e) /\ sftp \in sftpEnded'
            /\ client # 0 => "clientEnd" \in StepNames(e) /\ client \in ended'
            /\ Disconnected'
       /\ StartsNow("disconnect") /\ client # 0 /\ sftp # 0 /\ tunnel # 0 =>
            \/ ReturnsAtOnce /\ StepNames(last'.ev) = {"tunnelStop", "sftpEnd", "clientEnd"}
            \/ \E c \in Slots :
                  /\ calls[c].pc = "idle" /\ calls'[c].pc = "stopWait"
                  /\ calls'[c].ev = << <<"tunnelStop", FALSE>> >>
                  /\ UNCHANGED <<SessionFields, ended, sftpEnded>>]_vars

\* A disconnect() of a Connected session whose tunnel was Running has
\* returned: it waited for the listener, then sftp.end() threw, and the
\* transport was ended all the same.
C14_Witness ==
    /\ last.op = "disconnect" /\ last.res = "ok"
    /\ last.ev = << <<"tunnelStop", FALSE>>, <<"sftpEnd", TRUE>>, <<"clientEnd", FALSE>> >>
    /\ \E l \in Listeners : lstate[l] = "closed"
    /\ sftpEnded = {1} /\ ended = {1} /\ Disconnected

\* ------------------------------------------------------------------ C15
\* C15: every disconnect() and every stopTunnel() eventually returns, also
\* when the tunnel has relays whose connections are still open at the call:
\* a call waiting for the listener to close does not wait for ever.
C15_TeardownCompletes ==
    \A c \in Slots :
        (calls[c].pc = "stopWait" /\ calls[c].op \in {"disconnect", "stopTunnel"})
            ~> (calls[c].pc = "idle")

\* ------------------------------------------------------------------ C16
\* C16: every failure of connect, listRemote, uploadFiles or startTunnel
\* that is returned to the caller as {ok:false, error} has also been
\* reported by a log line.
C16_FailuresLogged ==
    last.op \in Wrapped /\ last.out = "okFalse" => last.log = "failure"

\* ------------------------------------------------------------------ C17
\* C17: no handler rejects: connect, listRemote, uploadFiles and
\* startTunnel resolve with {ok:true,...} or {ok:false, error}, disconnect
\* and stopTunnel resolve with nothing, whatever the Session operation did.
C17_NoRejection ==
    /\ last.op \in {"connect", "listRemote", "uploadFiles", "startTunnel"}
          => last.out \in {"okTrue", "okFalse"}
    /\ last.op \in {"disconnect", "stopTunnel"} => last.out = "void"

\* startTunnel failed to bind and its handler resolved with {ok:false}.
C17_Witness ==
    /\ last.op = "startTunnel" /\ last.res = "BindError" /\ last.out = "okFalse"
    /\ \E l \in Listeners : lstate[l] = "failed"

\* ------------------------------------------------------------------ C18
\* The listeners the Tunnel object t created that are bound.
BoundBy(t) == {l \in Listeners : lowner[l] = t /\ lstate[l] = "listening"}

\* C18: a Tunnel never has more than one listener bound, and a listener it
\* has bound is the one it holds, so the one stop() will close, whatever the
\* interleaving of its start() and stop() calls.
C18_OneListenerPerTunnel ==
    \A t \in Attempts :
        /\ Cardinality(BoundBy(t)) <= 1
        /\ BoundBy(t) \subseteq {tserver[t]}

\* ------------------------------------------------------------------ C19
\* C19: disconnect() does not interrupt a transfer in flight: while a put of
\* uploadFiles or the get of downloadToTemp is in flight, end() has not been
\* called on the subsystem handle it runs on.
C19_TransferNotInterrupted ==
    \A c \in Slots : calls[c].pc \in {"put", "get"} => calls[c].h \notin sftpEnded

\* ------------------------------------------------------------------ C20
\* C20: no relay has a local socket that reported an error and a remote
\* channel that is still open: the error destroys the channel.
C20_SockErrorDestroysChannel ==
    \A r \in Relays : rsock[r] = "errored" => rchan[r] \notin {"open", "ended"}

\* ------------------------------------------------------------------ C21
\* The tunnel of the Session holds a listener that is listening.
Running == tunnel # 0 /\ tserver[tunnel] # 0 /\ lstate[tserver[tunnel]] = "listening"

\* C21: when the channel of an accepted connection fails to open, the local
\* connection is closed, the error is logged, nothing is piped for it, the
\* tunnel stays Running and every other relay is as it was.
C21_OpenFailureIsLocal ==
    [][\A r \in Relays :
          rchan[r] = "opening" /\ rchan'[r] = "failed"
              => /\ rsock'[r] # "open"
                 /\ "forwardOut" \in rlog'[r]
                 /\ Running' /\ UNCHANGED <<SessionFields, TunnelFields, lstate>>
                 /\ \A q \in Relays \ {r} :
                       rsock'[q] = rsock[q] /\ rchan'[q] = rchan[q]]_vars

\* The channel of relay 1 failed to open and its socket was destroyed while
\* relay 2 is piped and open.
C21_Witness ==
    /\ rchan[1] = "failed" /\ rsock[1] = "destroyed"
    /\ rlog[1] = {"forwardOut", "socket"}
    /\ rchan[2] = "open" /\ rsock[2] = "open"
    /\ Running

\* ------------------------------------------------------------------ C22
\* This step is an event of relay r: its socket or its channel changes after
\* the connection was accepted.
RelayEvent(r) ==
    rsock[r] # "none" /\ (rsock'[r] # rsock[r] \/ rchan'[r] # rchan[r])

\* C22: no relay event (socket error or close, channel error or close,
\* channel-open failure) changes whether the tunnel is Running, the
\* Session's transport, subsystem or tunnel handle, or the socket or channel
\* of any other relay.
C22_RelayEventsStayLocal ==
    [][\A r \in Relays :
          RelayEvent(r)
              => /\ Running' = Running
                 /\ UNCHANGED <<SessionFields, TunnelFields, transport, ended,
                                sftpEnded, lstate>>
                 /\ \A q \in Relays \ {r} :
                       rsock'[q] = rsock[q] /\ rchan'[q] = rchan[q]]_vars

\* The channel of relay 1 errored and took its socket down; relay 2 is still
\* piped and open and the tunnel Running.
C22_Witness ==
    /\ rchan[1] = "errored" /\ rsock[1] = "destroyed"
    /\ rchan[2] = "open" /\ rsock[2] = "open"
    /\ Running /\ client = 1 /\ sftp = 1

\* ------------------------------------------------------------------ C23
\* A start() of Tunnel t is between its listen call and the listen outcome.
Binding(t) == \E c \in Slots : calls[c].pc = "listenWait" /\ calls[c].h = t

\* C23: a Tunnel's stored parameters are set only while it is Running: a
\* Tunnel that holds no listener and has no start in progress (never
\* started, stopped, or after a start that failed to bind) has no parameters.
C23_ParamsOnlyWhileRunning ==
    \A t \in Attempts : tserver[t] = 0 /\ ~Binding(t) => tparams[t] = 0

\* ------------------------------------------------------------------ C24
\* The start() pending in slot c fails at bind in this step.
BindFails(c) ==
    /\ calls[c].pc = "listenWait" /\ calls'[c].pc = "idle"
    /\ last'.op = "startTunnel" /\ last'.res = "BindError"

\* C24: when binding the listener fails, start() fails with the bind error,
\* the Tunnel holds no listener more than before (isRunning() stays false on
\* a Stopped tunnel) and the listener that failed is bound nowhere; and a
\* start() is refused as already running only while the Tunnel holds a
\* listener, so a later start() is attempted again.
C24_BindFailureLeavesStopped ==
    [][/\ \A c \in Slots :
            BindFails(c)
                => /\ tserver' = tserver
                   /\ \A t \in Attempts : tserver'[t] # calls[c].l
                   /\ lstate'[calls[c].l] # "listening"
                   /\ last'.out = "okFalse"
       /\ (StartsNow("startTunnel") /\ ReturnsAtOnce /\ last'.res = "AlreadyRunning"
             => tunnel # 0 /\ tserver[tunnel] # 0)]_vars

\* A start() failed at bind and a later start() of the same Tunnel succeeded:
\* it holds the second listener, which is listening.
C24_Witness ==
    /\ tunnel = 1 /\ lowner[1] = 1 /\ lowner[2] = 1
    /\ lstate[1] = "failed" /\ lstate[2] = "listening" /\ tserver[1] = 2
    /\ last.op = "startTunnel" /\ last.res = "ok" /\ NoPending

\* ------------------------------------------------------------------ C25
\* The method the stated precedence selects among the supplied fields:
\* password over private key over agent.
PasswordFirst(p) ==
    IF p.password # "" THEN "password"
    ELSE IF p.privateKeyPath # "" THEN "privateKey"
    ELSE IF p.useAgent THEN "agent"
    ELSE "none"

\* C25: the configuration a connect hands to the transport carries exactly
\* the highest-precedence authentication method among the supplied fields,
\* with the precedence password over private key over agent.
C25_PasswordOverKeyOverAgent ==
    \A c \in Slots :
        calls[c].pc = "handshake" => calls[c].auth = PasswordFirst(calls[c].p)

\* ------------------------------------------------------------------ C26
\* C26: in every state between two handler steps, the Session holds the
\* file-transfer subsystem iff it holds a Tunnel object: connect sets both in
\* one step, disconnect clears both in one step.
C26_SftpIffTunnel == (sftp # 0) <=> (tunnel # 0)

\* A disconnect waits for the listener to close while the Session still
\* holds the subsystem and the Tunnel object of the same connect.
C26_Witness ==
    /\ \E c \in Slots : calls[c].op = "disconnect" /\ calls[c].pc = "stopWait"
    /\ sftp = 1 /\ tunnel = 1

\* ------------------------------------------------------------------ C27
\* C27: connect tears the prior session down before it validates its
\* parameters: a connect that fails with the configuration error leaves the
\* Session Disconnected, with the subsystem and the transport the Session
\* held ended, and the listener that was running when connect was called
\* (the one its stop() waited for) closed and held by no Tunnel.
C27_TeardownBeforeValidation ==
    [][ReturnsNow("connect") /\ last'.res = "ConfigError"
         => /\ Disconnected'
            /\ (client # 0 => client \in ended')
            /\ (sftp # 0 => sftp \in sftpEnded')
            /\ \A c \in Slots :
                  calls[c].op = "connect" /\ calls[c].pc = "stopWait"
                  /\ calls'[c].pc = "idle"
                      => /\ lstate'[calls[c].l] = "closed"
                         /\ \A t \in Attempts : tserver'[t] # calls[c].l]_vars

\* connect succeeded, startTunnel succeeded, then a connect with no
\* resolvable authentication returned the configuration error: the listener
\* is closed, subsystem and transport of the first connect are ended and the
\* Session is Disconnected.
C27_Witness ==
    /\ last.op = "connect" /\ last.res = "ConfigError" /\ NoPending
    /\ lstate[1] = "closed" /\ ended = {1} /\ sftpEnded = {1}
    /\ transport[1] = "ready" /\ attempts = 2 /\ tserver[1] = 0
    /\ Disconnected

=============================================================================
